---- MODULE Spec2Model ----
(***************************************************************************)
(* Model of the book splitter: the task split_chapters (src/src/split.rs)  *)
(* that reads a text file line by line, starts a new chapter at every line *)
(* matching a regex, writes each chapter to <folder>/<NNNN>.txt and        *)
(* reports its progress over a crossbeam channel.                          *)
(*                                                                         *)
(* Text is modelled as a sequence of one-character strings, so that        *)
(* String::is_empty, push_str, push('\n') and format!("{:04}.txt") are     *)
(* computed as the code computes them.                                     *)
(***************************************************************************)
EXTENDS Integers, Sequences, FiniteSets, TLC

VARIABLES
    pattern,        \* the pattern argument (a regex source, see Patterns)
    input,          \* the lines of the source file, as lines() yields them
    start_chapter,  \* the start_chapter argument
    pc,             \* position of the task in split_chapters
    result,         \* outcome of split_chapters_internal: "none", "ok" or the error
    dir_created,    \* create_dir_all(folder) has succeeded
    file_opened,    \* File::open(file) has succeeded
    lines,          \* the reader: the number of lines it has yielded
    line,           \* the line bound by `while let Some(line)`
    chapter_number, \* split.rs:50
    line_number,    \* split.rs:51
    chapter_text,   \* split.rs:52
    files,          \* output folder: file name -> content, files of this run
    writes,         \* file names in the order File::create succeeded on them
    chan,           \* messages in the channel, not yet received
    rx_alive,       \* the Receiver has not been dropped
    events,         \* every message the task has sent, in order
    status,         \* TemplateApp::status (app.rs:28)
    channel,        \* TemplateApp::channel (app.rs:34): "None" or "Some"
    lines_processed,\* TemplateApp::lines_processed (app.rs:24)
    chapters_saved, \* TemplateApp::chapters_saved (app.rs:26)
    last_hit,       \* TemplateApp::last_hit (app.rs:30): <<>> is None
    app_pc,         \* position of the UI thread in TemplateApp::update
    starts,         \* number of tasks spawned by the Start button
    orphans,        \* earlier tasks still running, their Receiver replaced
    dead            \* earlier tasks that ended by a panic

vars == <<pattern, input, start_chapter, pc, result, dir_created, file_opened,
          lines, line, chapter_number, line_number, chapter_text, files,
          writes, chan, rx_alive, events, status, channel, lines_processed,
          chapters_saved, last_hit, app_pc, starts, orphans, dead>>

argVars == <<pattern, input, start_chapter>>
ioVars == <<dir_created, file_opened, files, writes>>
loopVars == <<lines, line, chapter_number, line_number, chapter_text>>
chanVars == <<chan, rx_alive, events>>
taskVars == <<pc, result, ioVars, loopVars>>
fieldVars == <<status, channel, lines_processed, chapters_saved, last_hit>>
appVars == <<fieldVars, app_pc, starts, orphans, dead>>

----------------------------------------------------------------------------
(* Bounds of the model *)

MaxLen == 4          \* longest input, in lines, of the exhaustive inputs
MaxAppLen == 2       \* longest input, in lines, of the runs of the application
MaxStarts == 2       \* most clicks on Start
LongExtra == 2       \* the long inputs go up to 2*ProgressEvery + LongExtra lines

(* Program constants *)

ProgressEvery == 1000   \* split.rs:77
PadWidth == 4           \* split.rs:61, "{:04}"

----------------------------------------------------------------------------
(* Text *)

NL == "\n"

DigitChars == <<"0", "1", "2", "3", "4", "5", "6", "7", "8", "9">>

RECURSIVE Digits(_)
Digits(n) ==
    IF n < 10 THEN <<DigitChars[n + 1]>>
    ELSE Digits(n \div 10) \o <<DigitChars[(n % 10) + 1]>>

RECURSIVE PadZeros(_, _)
PadZeros(s, width) ==
    IF Len(s) >= width THEN s ELSE PadZeros(<<"0">> \o s, width)

\* format!("{:04}.txt", chapter_number)
Filename(n) == PadZeros(Digits(n), PadWidth) \o <<".", "t", "x", "t">>

IsEmpty_Always(text) == TRUE

IsEmpty_Never(text) == FALSE

\* chapter_text.is_empty()
IsEmpty(text) == Len(text) = 0

PushLine_NoNewline(text, l) == text \o l

\* chapter_text.push_str(&line); chapter_text.push('\n')
PushLine(text, l) == text \o l \o <<NL>>

ShouldReport_OffByOne(n) == n % ProgressEvery = 1

\* line_number % 1000 == 0
ShouldReport(n) == n % ProgressEvery = 0

NextChapter_Stuck(n) == n

NextChapter_Twice(n) == n + 2

\* chapter_number += 1
NextChapter(n) == n + 1

----------------------------------------------------------------------------
(* Patterns: the regex sources "(" (does not compile), "" , "^C" and        *)
(* "^Chapter".  A source that compiles is the anchored literal prefix it    *)
(* spells.                                                                  *)

BadPattern == [src |-> "(", valid |-> FALSE, prefix |-> <<>>]
AnyPattern == [src |-> "", valid |-> TRUE, prefix |-> <<>>]
CPattern == [src |-> "^C", valid |-> TRUE, prefix |-> <<"C">>]
ChapterPattern ==
    [src |-> "^Chapter", valid |-> TRUE,
     prefix |-> <<"C", "h", "a", "p", "t", "e", "r">>]

\* Regex::new(pattern) is Ok
Compiles(p) == p.valid

\* pattern.is_match(&line)
is_match(p, l) ==
    /\ Len(l) >= Len(p.prefix)
    /\ SubSeq(l, 1, Len(p.prefix)) = p.prefix

----------------------------------------------------------------------------
(* Inputs *)

SmallLines == {<<>>, <<"C">>, <<"x">>}

SeqsUpTo(S, n) == UNION {[1..k -> S] : k \in 0..n}

SmallInputs == SeqsUpTo(SmallLines, MaxLen)

ExampleInput ==
    << <<"C", "h", "a", "p", "t", "e", "r", " ", "1">>,
       <<"h", "e", "l", "l", "o">>,
       <<"w", "o", "r", "l", "d">>,
       <<"C", "h", "a", "p", "t", "e", "r", " ", "2">>,
       <<"f", "o", "o">> >>

StartChapters == {0, 1, 9999}

----------------------------------------------------------------------------
(* Events: StatusReport, split.rs:4-11 *)

Ev(type, n, text, err) == [type |-> type, n |-> n, text |-> text, err |-> err]

Started == Ev("Started", 0, <<>>, "none")
LinesParsed(n) == Ev("LinesParsed", n, <<>>, "none")
ChaptersSplit(n) == Ev("ChaptersSplit", n, <<>>, "none")
NewTitle(l) == Ev("NewTitle", 0, l, "none")
Error(e) == Ev("Error", 0, <<>>, e)
Done == Ev("Done", 0, <<>>, "none")

\* channel.send(ev).unwrap(): the message is queued when the Receiver is
\* alive; send returns Err when it has been dropped and unwrap panics.
Send(ev, next) ==
    IF rx_alive
    THEN /\ chan' = Append(chan, ev)
         /\ events' = Append(events, ev)
         /\ pc' = next
         /\ UNCHANGED rx_alive
    ELSE /\ pc' = "panicked"
         /\ UNCHANGED chanVars

----------------------------------------------------------------------------
(* Initial states *)

InitRun ==
    /\ pc = "start"
    /\ result = "none"
    /\ dir_created = FALSE
    /\ file_opened = FALSE
    /\ lines = 0
    /\ line = <<>>
    /\ chapter_number = 0
    /\ line_number = 0
    /\ chapter_text = <<>>
    /\ files = <<>>
    /\ writes = <<>>
    /\ chan = <<>>
    /\ rx_alive = TRUE
    /\ events = <<>>

\* TemplateApp::default, app.rs:37-55, before any frame
InitFields ==
    /\ status = "NotStarted"
    /\ channel = "None"
    /\ lines_processed = 0
    /\ chapters_saved = 0
    /\ last_hit = <<>>
    /\ app_pc = "frame"
    /\ starts = 0
    /\ orphans = 0
    /\ dead = 0

Init ==
    /\ InitFields
    /\ \/ /\ input \in SmallInputs
          /\ pattern \in {BadPattern, AnyPattern, CPattern}
          /\ start_chapter \in StartChapters
       \/ /\ input = ExampleInput
          /\ pattern = ChapterPattern
          /\ start_chapter = 1
    /\ InitRun

----------------------------------------------------------------------------
(* split_chapters and split_chapters_internal, one action per step *)

\* split.rs:20
SendStarted ==
    /\ pc = "start"
    /\ UNCHANGED appVars
    /\ Send(Started, "compile")
    /\ UNCHANGED <<argVars, result, ioVars, loopVars>>

\* split.rs:44
CompilePattern ==
    /\ pc = "compile"
    /\ UNCHANGED appVars
    /\ IF Compiles(pattern)
       THEN pc' = "mkdir" /\ UNCHANGED result
       ELSE pc' = "report" /\ result' = "regex"
    /\ UNCHANGED <<argVars, ioVars, loopVars, chanVars>>

\* split.rs:46
CreateDirAll ==
    /\ pc = "mkdir"
    /\ UNCHANGED appVars
    /\ \/ /\ dir_created' = TRUE
          /\ pc' = "open"
          /\ UNCHANGED result
       \/ /\ pc' = "report"
          /\ result' = "mkdir"
          /\ UNCHANGED dir_created
    /\ UNCHANGED <<argVars, file_opened, files, writes, loopVars, chanVars>>

\* split.rs:47-54
OpenFile ==
    /\ pc = "open"
    /\ UNCHANGED appVars
    /\ \/ /\ file_opened' = TRUE
          /\ lines' = 0
          /\ chapter_number' = start_chapter
          /\ line_number' = 0
          /\ chapter_text' = <<>>
          /\ pc' = "read"
          /\ UNCHANGED result
       \/ /\ pc' = "report"
          /\ result' = "open"
          /\ UNCHANGED <<file_opened, lines, chapter_number, line_number,
                         chapter_text>>
    /\ UNCHANGED <<argVars, dir_created, files, writes, line, chanVars>>

\* split.rs:55-56 and, at the end of the input, split.rs:85
NextLine ==
    /\ pc = "read"
    /\ UNCHANGED appVars
    /\ \/ /\ lines < Len(input)
          /\ line' = input[lines + 1]
          /\ lines' = lines + 1
          /\ pc' = IF is_match(pattern, input[lines + 1])
                   THEN "title" ELSE "append"
          /\ UNCHANGED result
       \/ /\ lines = Len(input)
          /\ IF IsEmpty(chapter_text)
             THEN pc' = "report" /\ result' = "ok"
             ELSE pc' = "create_last" /\ UNCHANGED result
          /\ UNCHANGED <<lines, line>>
       \/ /\ pc' = "report"
          /\ result' = "read"
          /\ UNCHANGED <<lines, line>>
    /\ UNCHANGED <<argVars, ioVars, chapter_number, line_number, chapter_text,
                   chanVars>>

SendNewTitle_NoFlush ==
    /\ pc = "title"
    /\ UNCHANGED appVars
    /\ Send(NewTitle(line), "incr")
    /\ UNCHANGED <<argVars, result, ioVars, loopVars>>

\* split.rs:57-60
SendNewTitle ==
    /\ pc = "title"
    /\ UNCHANGED appVars
    /\ Send(NewTitle(line),
            IF IsEmpty(chapter_text) THEN "incr" ELSE "create")
    /\ UNCHANGED <<argVars, result, ioVars, loopVars>>

\* File::create(folder.join(format!(...))): creates or truncates the file
Create(next) ==
    \/ /\ files' = (Filename(chapter_number) :> <<>>) @@ files
       /\ writes' = Append(writes, Filename(chapter_number))
       /\ pc' = next
       /\ UNCHANGED result
    \/ /\ pc' = "report"
       /\ result' = "create"
       /\ UNCHANGED <<files, writes>>

\* split.rs:61-62
CreateChapterFile ==
    /\ pc = "create"
    /\ UNCHANGED appVars
    /\ Create("write")
    /\ UNCHANGED <<argVars, dir_created, file_opened, loopVars, chanVars>>

WriteChapterFile_NoClear ==
    /\ pc = "write"
    /\ UNCHANGED appVars
    /\ \/ /\ files' = (Filename(chapter_number) :> chapter_text) @@ files
          /\ pc' = "incr"
          /\ UNCHANGED result
       \/ /\ pc' = "report"
          /\ result' = "write"
          /\ UNCHANGED files
    /\ UNCHANGED <<argVars, dir_created, file_opened, writes, loopVars,
                   chanVars>>

\* split.rs:63-64
WriteChapterFile ==
    /\ pc = "write"
    /\ UNCHANGED appVars
    /\ \/ /\ files' = (Filename(chapter_number) :> chapter_text) @@ files
          /\ chapter_text' = <<>>
          /\ pc' = "incr"
          /\ UNCHANGED result
       \/ /\ pc' = "report"
          /\ result' = "write"
          /\ UNCHANGED <<files, chapter_text>>
    /\ UNCHANGED <<argVars, dir_created, file_opened, writes, lines, line,
                   chapter_number, line_number, chanVars>>

\* split.rs:67-70
IncrementChapter ==
    /\ pc = "incr"
    /\ UNCHANGED appVars
    /\ chapter_number' = NextChapter(chapter_number)
    /\ Send(ChaptersSplit(NextChapter(chapter_number)), "append")
    /\ UNCHANGED <<argVars, result, ioVars, lines, line, line_number,
                   chapter_text>>

\* split.rs:73-81
AppendLine ==
    /\ pc = "append"
    /\ UNCHANGED appVars
    /\ chapter_text' = PushLine(chapter_text, line)
    /\ line_number' = line_number + 1
    /\ IF ShouldReport(line_number + 1)
       THEN Send(LinesParsed(line_number + 1), "read")
       ELSE pc' = "read" /\ UNCHANGED chanVars
    /\ UNCHANGED <<argVars, result, ioVars, lines, line, chapter_number>>

\* split.rs:86-87
CreateLastFile ==
    /\ pc = "create_last"
    /\ UNCHANGED appVars
    /\ Create("write_last")
    /\ UNCHANGED <<argVars, dir_created, file_opened, loopVars, chanVars>>

\* split.rs:88-91
WriteLastFile ==
    /\ pc = "write_last"
    /\ UNCHANGED appVars
    /\ \/ /\ files' = (Filename(chapter_number) :> chapter_text) @@ files
          /\ pc' = "report"
          /\ result' = "ok"
       \/ /\ pc' = "report"
          /\ result' = "write"
          /\ UNCHANGED files
    /\ UNCHANGED <<argVars, dir_created, file_opened, writes, loopVars,
                   chanVars>>

\* split.rs:21-27
SendTerminal ==
    /\ pc = "report"
    /\ UNCHANGED appVars
    /\ Send(IF result = "ok" THEN Done ELSE Error(result), "finished")
    /\ UNCHANGED <<argVars, result, ioVars, loopVars>>

----------------------------------------------------------------------------
(* The holder of the Receiver *)

\* rx.try_recv() returning Ok(msg)
ConsumerRecv ==
    /\ rx_alive
    /\ UNCHANGED appVars
    /\ chan # <<>>
    /\ chan' = Tail(chan)
    /\ UNCHANGED <<argVars, pc, result, ioVars, loopVars, rx_alive, events>>

\* the Receiver is dropped; the messages still queued are dropped with it
ConsumerDrop ==
    /\ rx_alive
    /\ UNCHANGED appVars
    /\ rx_alive' = FALSE
    /\ chan' = <<>>
    /\ UNCHANGED <<argVars, pc, result, ioVars, loopVars, events>>

----------------------------------------------------------------------------

Next ==
    \/ SendStarted
    \/ CompilePattern
    \/ CreateDirAll
    \/ OpenFile
    \/ NextLine
    \/ SendNewTitle
    \/ CreateChapterFile
    \/ WriteChapterFile
    \/ IncrementChapter
    \/ AppendLine
    \/ CreateLastFile
    \/ WriteLastFile
    \/ SendTerminal
    \/ ConsumerRecv
    \/ ConsumerDrop

Spec == Init /\ [][Next]_vars

----------------------------------------------------------------------------
(* The application: TemplateApp::update (app.rs:132-245) runs on the UI     *)
(* thread, once per frame: parse_channel, then the widgets.  The task set   *)
(* out above is the one spawned by the latest click on Start; a task whose  *)
(* Receiver was replaced by a later click while it was running goes on as   *)
(* an orphan until its next send, which panics.                             *)

AppInputs == SeqsUpTo(SmallLines, MaxAppLen)

Running == pc \notin {"idle", "finished", "panicked"}

Fields ==
    [status |-> status, lines_processed |-> lines_processed,
     chapters_saved |-> chapters_saved, last_hit |-> last_hit,
     drop_channel |-> FALSE]

Handle_DropOnStarted(app, msg) ==
    CASE msg.type = "Started" ->
           [app EXCEPT !.status = "Working", !.lines_processed = 0,
                       !.chapters_saved = 0, !.last_hit = <<>>,
                       !.drop_channel = TRUE]
      [] msg.type = "LinesParsed" -> [app EXCEPT !.lines_processed = msg.n]
      [] msg.type = "ChaptersSplit" -> [app EXCEPT !.chapters_saved = msg.n]
      [] msg.type = "NewTitle" -> [app EXCEPT !.last_hit = <<msg.text>>]
      [] msg.type = "Error" ->
           [app EXCEPT !.status = "Error", !.drop_channel = TRUE]
      [] msg.type = "Done" ->
           [app EXCEPT !.status = "Done", !.drop_channel = TRUE]

\* the match on msg, app.rs:101-119
Handle(app, msg) ==
    CASE msg.type = "Started" ->
           [app EXCEPT !.status = "Working", !.lines_processed = 0,
                       !.chapters_saved = 0, !.last_hit = <<>>]
      [] msg.type = "LinesParsed" -> [app EXCEPT !.lines_processed = msg.n]
      [] msg.type = "ChaptersSplit" -> [app EXCEPT !.chapters_saved = msg.n]
      [] msg.type = "NewTitle" -> [app EXCEPT !.last_hit = <<msg.text>>]
      [] msg.type = "Error" ->
           [app EXCEPT !.status = "Error", !.drop_channel = TRUE]
      [] msg.type = "Done" ->
           [app EXCEPT !.status = "Done", !.drop_channel = TRUE]

\* while let Ok(msg) = rx.try_recv(), app.rs:100-120
RECURSIVE Drain(_, _)
Drain(app, msgs) ==
    IF msgs = <<>> THEN app ELSE Drain(Handle(app, Head(msgs)), Tail(msgs))

\* the state before the first frame and the first click
InitApp ==
    /\ InitFields
    /\ input \in AppInputs
    /\ pattern \in {BadPattern, AnyPattern, CPattern}
    /\ start_chapter = 1
    /\ pc = "idle"
    /\ result = "none"
    /\ dir_created = FALSE
    /\ file_opened = FALSE
    /\ lines = 0
    /\ line = <<>>
    /\ chapter_number = 0
    /\ line_number = 0
    /\ chapter_text = <<>>
    /\ files = <<>>
    /\ writes = <<>>
    /\ chan = <<>>
    /\ rx_alive = FALSE
    /\ events = <<>>

\* parse_channel, app.rs:97-126, called at app.rs:133
ParseChannel ==
    /\ app_pc = "frame"
    /\ LET app == Drain(Fields, IF channel = "Some" THEN chan ELSE <<>>)
       IN  /\ status' = app.status
           /\ lines_processed' = app.lines_processed
           /\ chapters_saved' = app.chapters_saved
           /\ last_hit' = app.last_hit
           /\ IF app.drop_channel
              THEN /\ channel' = "None"
                   /\ rx_alive' = FALSE
                   /\ chan' = <<>>
              ELSE /\ chan' = IF channel = "Some" THEN <<>> ELSE chan
                   /\ UNCHANGED <<channel, rx_alive>>
    /\ app_pc' = "ui"
    /\ UNCHANGED <<argVars, taskVars, events, starts, orphans, dead>>

\* the rest of update when Start is not clicked: the spinner while Working
\* (app.rs:188-190), the button left alone otherwise (app.rs:192)
UiIdle ==
    /\ app_pc = "ui"
    /\ app_pc' = "frame"
    /\ UNCHANGED <<argVars, taskVars, chanVars, fieldVars, starts, orphans,
                   dead>>

\* Start is clicked, app.rs:191-209: a new channel, its Receiver replaces the
\* one held, a new task is spawned with the Sender
ClickStart ==
    /\ app_pc = "ui"
    /\ status # "Working"
    /\ starts < MaxStarts
    /\ starts' = starts + 1
    /\ channel' = "Some"
    /\ rx_alive' = TRUE
    /\ chan' = <<>>
    /\ events' = <<>>
    /\ orphans' = IF Running THEN orphans + 1 ELSE orphans
    /\ dead' = IF pc = "panicked" THEN dead + 1 ELSE dead
    /\ pc' = "start"
    /\ result' = "none"
    /\ dir_created' = FALSE
    /\ file_opened' = FALSE
    /\ lines' = 0
    /\ line' = <<>>
    /\ chapter_number' = 0
    /\ line_number' = 0
    /\ chapter_text' = <<>>
    /\ files' = <<>>
    /\ writes' = <<>>
    /\ app_pc' = "frame"
    /\ UNCHANGED <<argVars, status, lines_processed, chapters_saved, last_hit>>

\* an orphan reaches its next channel.send(..).unwrap()
OrphanPanic ==
    /\ orphans > 0
    /\ orphans' = orphans - 1
    /\ dead' = dead + 1
    /\ UNCHANGED <<argVars, taskVars, chanVars, fieldVars, app_pc, starts>>

\* a step of the task spawned by the latest click
TaskNext ==
    \/ SendStarted
    \/ CompilePattern
    \/ CreateDirAll
    \/ OpenFile
    \/ NextLine
    \/ SendNewTitle
    \/ CreateChapterFile
    \/ WriteChapterFile
    \/ IncrementChapter
    \/ AppendLine
    \/ CreateLastFile
    \/ WriteLastFile
    \/ SendTerminal

NextApp ==
    \/ SendStarted
    \/ CompilePattern
    \/ CreateDirAll
    \/ OpenFile
    \/ NextLine
    \/ SendNewTitle
    \/ CreateChapterFile
    \/ WriteChapterFile
    \/ IncrementChapter
    \/ AppendLine
    \/ CreateLastFile
    \/ WriteLastFile
    \/ SendTerminal
    \/ OrphanPanic
    \/ ParseChannel
    \/ UiIdle
    \/ ClickStart

SpecApp == InitApp /\ [][NextApp]_vars

\* the runtime schedules every spawned task (app.rs:48-51, 199); nothing is
\* assumed of the frames
SpecAppTaskFair ==
    /\ SpecApp
    /\ WF_vars(TaskNext)
    /\ WF_vars(OrphanPanic)

\* the runtime schedules every spawned task and the frames keep coming
SpecAppFair ==
    /\ SpecApp
    /\ WF_vars(TaskNext)
    /\ WF_vars(OrphanPanic)
    /\ WF_vars(ParseChannel)
    /\ WF_vars(UiIdle \/ ClickStart)

----------------------------------------------------------------------------
(* Vocabulary of the properties *)

\* split_chapters_internal has returned Ok(())
Succeeded == result = "ok"

\* the task has left split_chapters, by returning or by a panic
Ended == pc \in {"finished", "panicked"}

\* the text of a sequence of lines, each followed by a newline
RECURSIVE Render(_)
Render(ls) ==
    IF ls = <<>> THEN <<>> ELSE Head(ls) \o <<NL>> \o Render(Tail(ls))

\* the lines of a text: the pieces that end at each newline, and what
\* follows the last newline when that is not empty
RECURSIVE SplitLines(_)
SplitLines(text) ==
    IF text = <<>> THEN <<>>
    ELSE IF \E i \in 1..Len(text) : text[i] = NL
         THEN LET i == CHOOSE i \in 1..Len(text) :
                          /\ text[i] = NL
                          /\ \A j \in 1..(i - 1) : text[j] # NL
              IN  <<SubSeq(text, 1, i - 1)>>
                    \o SplitLines(SubSeq(text, i + 1, Len(text)))
         ELSE <<text>>

\* positions of the input lines that match the pattern
MatchPos == {i \in 1..Len(input) : is_match(pattern, input[i])}

NumMatches == Cardinality(MatchPos)

\* position of the k-th matching line
KthMatch(k) ==
    CHOOSE i \in MatchPos : Cardinality({j \in MatchPos : j < i}) = k - 1

\* the lines from the k-th matching line up to the line before the next one
ChapterLines(k) ==
    SubSeq(input, KthMatch(k),
           IF k = NumMatches THEN Len(input) ELSE KthMatch(k + 1) - 1)

\* the lines before the first matching line
Preamble ==
    SubSeq(input, 1, IF NumMatches = 0 THEN Len(input) ELSE KthMatch(1) - 1)

\* chapter indices a run on this input can use
IndexRange == start_chapter..(start_chapter + Len(input))

RECURSIVE ConcatFrom(_, _)
ConcatFrom(i, hi) ==
    IF i > hi THEN <<>>
    ELSE (IF Filename(i) \in DOMAIN files THEN files[Filename(i)] ELSE <<>>)
           \o ConcatFrom(i + 1, hi)

\* the contents of the output files, in increasing chapter-index order
ConcatFiles == ConcatFrom(start_chapter, start_chapter + Len(input))

HasFile(name, content) == name \in DOMAIN files /\ files[name] = content

----------------------------------------------------------------------------
(* C1  Partition: after a successful run, the output files of the run,    *)
(* concatenated in increasing chapter-index order, are the input lines,    *)
(* each exactly once and in input order.                                   *)
Partition ==
    Succeeded =>
        /\ DOMAIN files \subseteq {Filename(i) : i \in IndexRange}
        /\ ConcatFiles = Render(input)
        /\ SplitLines(ConcatFiles) = input

PartitionWitness ==
    /\ pc = "finished"
    /\ Succeeded
    /\ Cardinality(DOMAIN files) >= 3
    /\ Len(input) = MaxLen

(* C2 as stated: the chapter beginning at the k-th matching line is in the *)
(* file numbered startChapter + k - 1, and the example input gives         *)
(* 0001.txt and 0002.txt.                                                  *)
ChapterKInFileStartPlusKMinus1 ==
    Succeeded =>
        /\ \A k \in 1..NumMatches :
              HasFile(Filename(start_chapter + k - 1), Render(ChapterLines(k)))
        /\ (input = ExampleInput /\ pattern = ChapterPattern) =>
              /\ HasFile(<<"0", "0", "0", "1", ".", "t", "x", "t">>,
                         Render(SubSeq(ExampleInput, 1, 3)))
              /\ HasFile(<<"0", "0", "0", "2", ".", "t", "x", "t">>,
                         Render(SubSeq(ExampleInput, 4, 5)))

(* C2  amended: after a successful run the chapter beginning at the k-th   *)
(* matching line is in the file numbered startChapter + k (the index is    *)
(* incremented at the match, before the chapter is buffered); the file     *)
(* numbered startChapter holds the lines before the first matching line    *)
(* and exists only if there are such lines.  The example input with        *)
(* startChapter = 1 gives 0002.txt = [Chapter 1, hello, world] and         *)
(* 0003.txt = [Chapter 2, foo], and no 0001.txt.                           *)
ChapterKInFileStartPlusK ==
    Succeeded =>
        /\ \A k \in 1..NumMatches :
              HasFile(Filename(start_chapter + k), Render(ChapterLines(k)))
        /\ IF Preamble = <<>>
           THEN Filename(start_chapter) \notin DOMAIN files
           ELSE HasFile(Filename(start_chapter), Render(Preamble))
        /\ (input = ExampleInput /\ pattern = ChapterPattern) =>
              /\ HasFile(<<"0", "0", "0", "2", ".", "t", "x", "t">>,
                         Render(SubSeq(ExampleInput, 1, 3)))
              /\ HasFile(<<"0", "0", "0", "3", ".", "t", "x", "t">>,
                         Render(SubSeq(ExampleInput, 4, 5)))
              /\ Cardinality(DOMAIN files) = 2

ExampleRunWitness ==
    /\ pc = "finished"
    /\ Succeeded
    /\ input = ExampleInput
    /\ pattern = ChapterPattern
    /\ start_chapter = 1
    /\ Cardinality(DOMAIN files) = 2

(* C3 as stated: a send to a disconnected channel is a silent no-op, so    *)
(* dropping the receiver never aborts the run.                             *)
SendNeverAborts == pc # "panicked"

(* C4 as stated: a successful run on any input without a matching line     *)
(* produces exactly one file, named with startChapter, holding the whole   *)
(* input.                                                                  *)
NoMatchOneFile ==
    (Succeeded /\ NumMatches = 0) =>
        /\ DOMAIN files = {Filename(start_chapter)}
        /\ files[Filename(start_chapter)] = Render(input)

(* C4  amended: a successful run on a non-empty input without a matching   *)
(* line produces exactly one file, named with startChapter, holding the    *)
(* whole input (an empty input produces no file).                          *)
NoMatchNonEmptyOneFile ==
    (Succeeded /\ NumMatches = 0 /\ input # <<>>) =>
        /\ DOMAIN files = {Filename(start_chapter)}
        /\ files[Filename(start_chapter)] = Render(input)
        /\ SplitLines(files[Filename(start_chapter)]) = input

NoMatchWitness ==
    /\ pc = "finished"
    /\ Succeeded
    /\ NumMatches = 0
    /\ Len(input) = MaxLen
    /\ \E i \in 1..Len(input) : input[i] = <<>>

----------------------------------------------------------------------------
IsTerminal(ev) == ev.type \in {"Done", "Error"}

OfType(t) == SelectSeq(events, LAMBDA ev : ev.type = t)

(* C5 as stated: in the event sequence of any run, Started occurs exactly  *)
(* once and first, exactly one of Done / Error occurs and is the last      *)
(* event, and nothing is sent after it.                                    *)
TerminalUniqueness ==
    /\ events # <<>> => events[1] = Started
    /\ \A i \in 2..Len(events) : events[i].type # "Started"
    /\ \A i \in 1..Len(events) : IsTerminal(events[i]) => i = Len(events)
    /\ Ended => /\ events # <<>>
                /\ events[1] = Started
                /\ IsTerminal(events[Len(events)])

(* C6 as stated: when the pattern does not compile, the source file is not *)
(* opened, the output directory is not created, no output file is written, *)
(* and the event sequence of the run is exactly Started, Failed.           *)
InvalidPatternStartedFailed ==
    ~Compiles(pattern) =>
        /\ ~dir_created
        /\ ~file_opened
        /\ files = <<>>
        /\ writes = <<>>
        /\ Ended => events = <<Started, Error("regex")>>

\* at least one line follows the last matching line (any line, when no
\* line matches)
TrailingContent ==
    IF NumMatches = 0 THEN Len(input) > 0
    ELSE KthMatch(NumMatches) < Len(input)

FirstLineMatches == input # <<>> /\ is_match(pattern, input[1])

(* C7 as stated: after a successful run on a non-empty input the number of *)
(* output files is the number of matching lines, plus 1 if a line follows  *)
(* the last matching line, less the flush skipped when the very first line *)
(* matches.                                                                *)
FileCountMatchesPlusTrailing ==
    (Succeeded /\ input # <<>>) =>
        Cardinality(DOMAIN files) =
            NumMatches + (IF TrailingContent THEN 1 ELSE 0)
                       - (IF FirstLineMatches THEN 1 ELSE 0)

(* C7  amended: after a successful run on a non-empty input the number of  *)
(* output files is the number of matching lines plus 1, less 1 if the very *)
(* first line matches; whether a line follows the last matching line makes *)
(* no difference, since the matching line itself is buffered and flushed   *)
(* at the end of the input.                                                *)
FileCountMatchesPlusOne ==
    (Succeeded /\ input # <<>>) =>
        /\ Cardinality(DOMAIN files) =
              NumMatches + 1 - (IF FirstLineMatches THEN 1 ELSE 0)
        /\ Len(writes) = Cardinality(DOMAIN files)

FileCountWitness ==
    /\ pc = "finished"
    /\ Succeeded
    /\ NumMatches = 2
    /\ ~FirstLineMatches
    /\ ~TrailingContent
    /\ Cardinality(DOMAIN files) = 3

\* number of matching lines among the first n lines of the input
MatchesBefore(n) == Cardinality({i \in MatchPos : i <= n})

\* the line being processed has been taken from the reader and not counted
LinePending == lines > line_number

(* C8  Chapter index: the chapter index is startChapter plus the number of *)
(* matching lines processed so far: between two lines it is startChapter   *)
(* plus the number of matching lines read, within a matching line it is    *)
(* that value before the increment and one more after it; the k-th         *)
(* ChaptersSplit event carries startChapter + k.                           *)
ChapterIndex ==
    /\ file_opened =>
          /\ line_number <= lines
          /\ lines <= line_number + 1
          /\ pc \in {"read", "create_last", "write_last", "finished"} /\ ~LinePending
                => chapter_number = start_chapter + MatchesBefore(line_number)
          /\ pc \in {"title", "create", "write", "incr"}
                => chapter_number = start_chapter + MatchesBefore(line_number)
          /\ pc = "append"
                => chapter_number = start_chapter + MatchesBefore(line_number + 1)
          /\ chapter_number >= start_chapter + MatchesBefore(line_number)
          /\ chapter_number <= start_chapter + MatchesBefore(lines)
    /\ LET cs == OfType("ChaptersSplit")
       IN  /\ \A k \in 1..Len(cs) : cs[k].n = start_chapter + k
           /\ file_opened => Len(cs) <= chapter_number - start_chapter
           /\ file_opened /\ pc # "panicked"
                => Len(cs) = chapter_number - start_chapter

ChapterIndexWitness ==
    /\ pc = "read"
    /\ lines = Len(input)
    /\ Len(OfType("ChaptersSplit")) = 3
    /\ chapter_number = start_chapter + 3
    /\ NumMatches = 3
    /\ Len(input) = MaxLen

\* number of newlines in a text
Newlines(text) == Cardinality({i \in 1..Len(text) : text[i] = NL})

RECURSIVE SumNewlines(_)
SumNewlines(names) ==
    IF names = {} THEN 0
    ELSE LET n == CHOOSE n \in names : TRUE
         IN  Newlines(files[n]) + SumNewlines(names \ {n})

\* the task is between split.rs:55 and split.rs:88
InLoop ==
    pc \in {"read", "title", "create", "write", "incr", "append",
            "create_last", "write_last"}

\* number of lines appended to the buffer so far, flushed to a file or not
LinesAppended == Newlines(chapter_text) + SumNewlines(DOMAIN files)

(* C9  Progress: the k-th LinesParsed event carries k * 1000, so the       *)
(* values are strictly increasing positive multiples of 1000; the events   *)
(* sent so far are those of the multiples of 1000 up to the number of      *)
(* lines appended to the buffer, so LinesParsed(n) is sent when exactly n  *)
(* lines have been appended; a run over N lines sends floor(N / 1000) of   *)
(* them.                                                                   *)
ProgressMonotone ==
    LET lp == OfType("LinesParsed")
    IN  /\ \A k \in 1..Len(lp) : lp[k].n = k * ProgressEvery
        /\ InLoop => LinesAppended = line_number
        /\ pc # "panicked" => Len(lp) = line_number \div ProgressEvery
        /\ Len(lp) <= line_number \div ProgressEvery
        /\ Len(lp) + 1 >= line_number \div ProgressEvery
        /\ Succeeded => /\ line_number = Len(input)
                        /\ Len(lp) = Len(input) \div ProgressEvery

ProgressWitness ==
    /\ pc = "read"
    /\ line_number = ProgressEvery
    /\ OfType("LinesParsed") = <<LinesParsed(ProgressEvery)>>
    /\ Len(input) > ProgressEvery
    /\ Len(OfType("ChaptersSplit")) > 0

(* C10 as stated: a run on an input with zero lines writes no output file  *)
(* and its event sequence is exactly Started, Done.                        *)
EmptyInputStartedDone ==
    (input = <<>> /\ file_opened) =>
        /\ files = <<>>
        /\ writes = <<>>
        /\ (Ended /\ result # "read") => events = <<Started, Done>>

----------------------------------------------------------------------------
\* the lines flushed at the k-th matching line: those before it, back to the
\* previous matching line
ChunkBefore(k) == IF k = 1 THEN Preamble ELSE ChapterLines(k - 1)

LastEvent == events[Len(events)]

(* C11  Match-step ordering: at a matching line the task sends             *)
(* NewTitle(line), then writes the non-empty buffer to the file of the     *)
(* index i it had before the line and clears it, then sets the index to    *)
(* i+1, sends ChaptersSplit(i+1) and appends the line.  So: while the      *)
(* flush runs the index is still i and NewTitle(line) is the last event;   *)
(* once ChaptersSplit(i+1) is sent the file of i holds the whole previous  *)
(* chapter (there is none only when the match is the first line); the line *)
(* is appended to the cleared buffer after ChaptersSplit(i+1); and the     *)
(* event after a NewTitle is ChaptersSplit(i+1), or Failed when the flush  *)
(* fails.                                                                  *)
MatchStepOrder ==
    LET cs == OfType("ChaptersSplit")
        nt == OfType("NewTitle")
    IN  /\ \A k \in 1..Len(nt) : nt[k] = NewTitle(input[KthMatch(k)])
        /\ Len(cs) <= Len(nt) /\ Len(nt) <= Len(cs) + 1
        /\ \A j \in 1..Len(events) :
              /\ events[j].type = "NewTitle" /\ j < Len(events) =>
                    \/ events[j + 1].type = "ChaptersSplit"
                    \/ events[j + 1] \in {Error("create"), Error("write")}
              /\ events[j].type = "ChaptersSplit" =>
                    j > 1 /\ events[j - 1].type = "NewTitle"
        /\ \A k \in 1..Len(cs) :
              /\ cs[k].n = start_chapter + k
              /\ IF ChunkBefore(k) = <<>>
                 THEN Filename(start_chapter + k - 1) \notin DOMAIN files
                 ELSE HasFile(Filename(start_chapter + k - 1),
                              Render(ChunkBefore(k)))
        /\ pc \in {"create", "write", "incr"} =>
              /\ LastEvent = NewTitle(line)
              /\ chapter_number = start_chapter + Len(cs)
              /\ Len(nt) = Len(cs) + 1
        /\ pc \in {"create", "write"} =>
              chapter_text = Render(ChunkBefore(Len(nt)))
        /\ pc = "incr" => chapter_text = <<>>
        /\ (pc = "append" /\ is_match(pattern, line)) =>
              /\ LastEvent = ChaptersSplit(chapter_number)
              /\ events[Len(events) - 1] = NewTitle(line)
              /\ chapter_text = <<>>

MatchStepWitness ==
    /\ pc = "append"
    /\ is_match(pattern, line)
    /\ Len(OfType("ChaptersSplit")) = 2
    /\ Cardinality(DOMAIN files) = 2
    /\ chapter_number = start_chapter + 2

(* C12  Chapter shape: every output file of a successful run has at least  *)
(* one line, at most one matching line, and a matching line only as its    *)
(* first line; only the file numbered startChapter can begin with a line   *)
(* that does not match; of two consecutive matching lines the earlier one  *)
(* is alone in its file.                                                   *)
ChapterShape ==
    Succeeded =>
        /\ \A name \in DOMAIN files :
              LET ls == SplitLines(files[name])
              IN  /\ ls # <<>>
                  /\ \A i \in 2..Len(ls) : ~is_match(pattern, ls[i])
                  /\ ~is_match(pattern, ls[1]) => name = Filename(start_chapter)
        /\ \A i \in 1..(Len(input) - 1) :
              (is_match(pattern, input[i]) /\ is_match(pattern, input[i + 1])) =>
                  HasFile(Filename(start_chapter + MatchesBefore(i)),
                          Render(<<input[i]>>))

ChapterShapeWitness ==
    /\ pc = "finished"
    /\ Succeeded
    /\ Len(input) >= 3
    /\ ~is_match(pattern, input[1])
    /\ is_match(pattern, input[2])
    /\ is_match(pattern, input[3])
    /\ HasFile(Filename(start_chapter + 1), Render(<<input[2]>>))

\* the buffer is tested or written: the head of the loop (split.rs:55), the
\* test at a matching line (split.rs:60), the flush and the end of the input
BetweenLines ==
    pc \in {"read", "title", "create", "write", "create_last", "write_last"}

IndexOf(name) == CHOOSE i \in IndexRange : Filename(i) = name

(* C14  Write-once files: within one run every file is created at most     *)
(* once, and the indices of the files are strictly increasing in the order *)
(* in which they are created and written.                                  *)
WriteOnce ==
    /\ \A j \in 1..Len(writes) :
          \E i \in IndexRange : Filename(i) = writes[j]
    /\ \A j, k \in 1..Len(writes) :
          j < k => IndexOf(writes[j]) < IndexOf(writes[k])
    /\ DOMAIN files = {writes[j] : j \in 1..Len(writes)}
    /\ Cardinality(DOMAIN files) = Len(writes)
    /\ \A j \in 1..Len(writes) :
          (j < Len(writes) \/ pc \notin {"write", "write_last", "report", "finished", "panicked"})
              => files[writes[j]] # <<>>

WriteOnceWitness ==
    /\ pc = "finished"
    /\ Succeeded
    /\ Len(writes) = MaxLen
    /\ start_chapter = 9999

\* the errors of reading a line and of creating or writing an output file
LoopErrors == {"read", "create", "write"}

\* a step taken after the error changes no file and sends at most Failed
FrozenAfterError ==
    result \in LoopErrors =>
        /\ files' = files
        /\ writes' = writes
        /\ events' \in {events, Append(events, Error(result))}

(* C15 as stated: once reading a line or creating or writing a file has    *)
(* failed, the run stops: no file is created or written any more, the only *)
(* event still sent is Failed, and the event sequence of the run ends with *)
(* exactly one Failed event.                                               *)
AbortOnError ==
    /\ [](result \in LoopErrors => pc \in {"report", "finished", "panicked"})
    /\ [][FrozenAfterError]_vars
    /\ []((Ended /\ result \in LoopErrors) =>
            /\ events # <<>>
            /\ LastEvent = Error(result)
            /\ Len(OfType("Error")) = 1)

----------------------------------------------------------------------------
(* Properties of the application *)

\* the r-th run has ended with its terminal event as its last send
RunCompleted(r) ==
    /\ starts = r
    /\ pc = "finished"
    /\ events # <<>>
    /\ IsTerminal(LastEvent)
    /\ result = "ok" => lines = Len(input) /\ line_number = Len(input)

(* C16 as stated: the task never waits for the consumer; in every          *)
(* interleaving of the frames and the task, also when no frame ever        *)
(* receives, every spawned task processes its input and sends its terminal *)
(* event.                                                                  *)
ProducerCompletes ==
    \A r \in 1..MaxStarts :
        (starts = r /\ pc = "start") ~> RunCompleted(r)

(* C17 as stated: when the tasks are scheduled and the frames keep coming, *)
(* every started run eventually sends its terminal event, after all its    *)
(* other events, and the status eventually leaves Working for Done or      *)
(* Error.                                                                  *)
Termination ==
    /\ \A r \in 1..MaxStarts :
          (starts = r /\ pc = "start") ~>
              (RunCompleted(r) /\ \A i \in 1..(Len(events) - 1) :
                                      ~IsTerminal(events[i]))
    /\ (status = "Working") ~> (status \in {"Done", "Error"})

\* number of tasks that have been spawned and have not ended
RunningTasks == (IF Running THEN 1 ELSE 0) + orphans

(* C18 as stated: at most one split task runs at any time, and the         *)
(* Receiver of a running task is never replaced and dropped.               *)
SingleRunInFlight ==
    /\ RunningTasks <= 1
    /\ orphans = 0
    /\ dead = 0

\* chan holds the messages sent and not yet received
IsSuffix(q, h) ==
    /\ Len(q) <= Len(h)
    /\ q = SubSeq(h, Len(h) - Len(q) + 1, Len(h))

(* C19  Receiver outlives the run: while exactly one run has been started, *)
(* the Receiver is alive until a parse_channel call has received the       *)
(* terminal event of the run, which is the last send of the task; so every *)
(* send of the task finds the channel connected and none fails.            *)
ReceiverOutlivesRun ==
    starts = 1 =>
        /\ pc # "panicked"
        /\ orphans = 0 /\ dead = 0
        /\ rx_alive <=> channel = "Some"
        /\ Running => rx_alive
        /\ rx_alive => IsSuffix(chan, events)
        /\ ~rx_alive =>
              /\ pc = "finished"
              /\ IsTerminal(LastEvent)
              /\ chan = <<>>
              /\ status = (IF LastEvent = Done THEN "Done" ELSE "Error")
        /\ \A i \in 1..(Len(events) - 1) : ~IsTerminal(events[i])

ReceiverDroppedWitness ==
    /\ starts = 1
    /\ pc = "finished"
    /\ ~rx_alive
    /\ channel = "None"
    /\ status = "Done"
    /\ Len(events) >= 6
    /\ chapters_saved = 3

----------------------------------------------------------------------------
(* Runs over long inputs, for the progress events: the receiver is never   *)
(* read, it is held or dropped.                                            *)

LongLens ==
    {ProgressEvery - 1, ProgressEvery, ProgressEvery + 1,
     2 * ProgressEvery + LongExtra}

LongPeriods == {7, ProgressEvery, 3 * ProgressEvery}

\* a line in every p is a title, the others are empty
LongInput(n, p) ==
    [i \in 1..n |-> IF i % p = 0 THEN <<"C">> ELSE <<>>]

InitLong ==
    /\ InitFields
    /\ input \in {LongInput(n, p) : n \in LongLens, p \in LongPeriods}
    /\ pattern = CPattern
    /\ start_chapter = 1
    /\ InitRun

NextLong ==
    \/ SendStarted
    \/ CompilePattern
    \/ CreateDirAll
    \/ OpenFile
    \/ NextLine
    \/ SendNewTitle
    \/ CreateChapterFile
    \/ WriteChapterFile
    \/ IncrementChapter
    \/ AppendLine
    \/ CreateLastFile
    \/ WriteLastFile
    \/ SendTerminal
    \/ ConsumerDrop

SpecLong == InitLong /\ [][NextLong]_vars

====
